---- MODULE Spec2Model ----
(***************************************************************************)
(* Model of src/main.py: the LinkedIn Easy Apply agent.                    *)
(*                                                                         *)
(* Texts (labels, profile values, advisory answers, field values) are TLA+ *)
(* strings; Python's substring test, lower(), strip(), split(), float(),   *)
(* int() and str() are operators over them, computed character by          *)
(* character.  Decimal numbers are exact rationals num/den, den a power of *)
(* ten (the inputs used have at most two fraction digits, for which        *)
(* Python's binary floats give the same results).                          *)
(***************************************************************************)
EXTENDS Integers, Sequences, FiniteSets, TLC

(***************************************************************************)
(* Python string primitives                                                *)
(***************************************************************************)
Char(s, i) == SubSeq(s, i, i)

\* t in s
Contains(s, t) == \E i \in 0..(Len(s) - Len(t)) : SubSeq(s, i + 1, i + Len(t)) = t

\* any(k in s for k in ks)
ContainsAny(s, ks) == \E k \in ks : Contains(s, k)

UpperChars == "ABCDEFGHIJKLMNOPQRSTUVWXYZ"
LowerChars == "abcdefghijklmnopqrstuvwxyz"

UpperToLower ==
    [c \in {Char(UpperChars, k) : k \in 1..26} |->
        Char(LowerChars, CHOOSE k \in 1..26 : Char(UpperChars, k) = c)]

LowerChar(c) == IF c \in DOMAIN UpperToLower THEN UpperToLower[c] ELSE c

RECURSIVE Lower(_)
\* s.lower()
Lower(s) == IF s = "" THEN "" ELSE LowerChar(Char(s, 1)) \o Lower(Tail(s))

IsSpace(c) == c \in {" ", "\t", "\n"}

RECURSIVE LStrip(_)
LStrip(s) == IF s # "" /\ IsSpace(Char(s, 1)) THEN LStrip(Tail(s)) ELSE s

RECURSIVE RStrip(_)
RStrip(s) ==
    IF s # "" /\ IsSpace(Char(s, Len(s))) THEN RStrip(SubSeq(s, 1, Len(s) - 1)) ELSE s

\* s.strip()
Strip(s) == RStrip(LStrip(s))

RECURSIVE StripChar(_, _)
\* s.strip(c) for a single character c
StripChar(s, c) ==
    IF s # "" /\ Char(s, 1) = c THEN StripChar(Tail(s), c)
    ELSE IF s # "" /\ Char(s, Len(s)) = c THEN StripChar(SubSeq(s, 1, Len(s) - 1), c)
    ELSE s

\* index of the first occurrence of t in s, 0 when there is none (s.find(t) + 1)
Find(s, t) ==
    IF Contains(s, t)
    THEN 1 + CHOOSE i \in 0..(Len(s) - Len(t)) :
                /\ SubSeq(s, i + 1, i + Len(t)) = t
                /\ \A j \in 0..(i - 1) : SubSeq(s, j + 1, j + Len(t)) # t
    ELSE 0

RECURSIVE SplitOn(_, _)
\* s.split(sep) for a non-empty separator
SplitOn(s, sep) ==
    LET k == Find(s, sep)
    IN  IF k = 0 THEN <<s>>
        ELSE <<SubSeq(s, 1, k - 1)>> \o SplitOn(SubSeq(s, k + Len(sep), Len(s)), sep)

RECURSIVE FirstWordLen(_)
FirstWordLen(s) == IF s = "" \/ IsSpace(Char(s, 1)) THEN 0 ELSE 1 + FirstWordLen(Tail(s))

RECURSIVE SplitWS(_)
\* s.split()
SplitWS(s) ==
    LET r == LStrip(s)
        n == FirstWordLen(r)
    IN  IF r = "" THEN <<>>
        ELSE <<SubSeq(r, 1, n)>> \o SplitWS(SubSeq(r, n + 1, Len(r)))

RECURSIVE Join(_, _)
\* sep.join(parts)
Join(parts, sep) ==
    IF parts = <<>> THEN ""
    ELSE IF Len(parts) = 1 THEN parts[1]
    ELSE parts[1] \o sep \o Join(Tail(parts), sep)

(***************************************************************************)
(* Python numbers: int(), float(), str(), f"{x:.2f}"                       *)
(***************************************************************************)
Digits == "0123456789"

IsDigit(c) == \E k \in 1..10 : Char(Digits, k) = c

DigitVal(c) == (CHOOSE k \in 1..10 : Char(Digits, k) = c) - 1

AllDigits(s) == \A i \in 1..Len(s) : IsDigit(Char(s, i))

RECURSIVE NatOf(_)
\* value of a string of digits
NatOf(s) == IF s = "" THEN 0 ELSE NatOf(SubSeq(s, 1, Len(s) - 1)) * 10 + DigitVal(Char(s, Len(s)))

RECURSIVE Pow10(_)
Pow10(k) == IF k = 0 THEN 1 ELSE 10 * Pow10(k - 1)

RECURSIVE NatStr(_)
NatStr(n) == IF n < 10 THEN Char(Digits, n + 1) ELSE NatStr(n \div 10) \o Char(Digits, (n % 10) + 1)

\* str(n) for an int n
IntStr(n) == IF n < 0 THEN "-" \o NatStr(-n) ELSE NatStr(n)

Unsigned(s) == IF s # "" /\ Char(s, 1) \in {"-", "+"} THEN Tail(s) ELSE s

Negative(s) == s # "" /\ Char(s, 1) = "-"

\* int(s): ok = FALSE stands for ValueError
ParseInt(s) ==
    LET b == Strip(s)
        u == Unsigned(b)
    IN  IF u # "" /\ AllDigits(u)
        THEN [ok |-> TRUE, val |-> IF Negative(b) THEN -NatOf(u) ELSE NatOf(u)]
        ELSE [ok |-> FALSE, val |-> 0]

\* float(s) as the rational num/den: ok = FALSE stands for ValueError
ParseFloat(s) ==
    LET b  == Strip(s)
        u  == Unsigned(b)
        k  == Find(u, ".")
        ip == IF k = 0 THEN u ELSE SubSeq(u, 1, k - 1)
        fp == IF k = 0 THEN "" ELSE SubSeq(u, k + 1, Len(u))
        sg == IF Negative(b) THEN -1 ELSE 1
    IN  IF AllDigits(ip) /\ AllDigits(fp) /\ Len(ip) + Len(fp) > 0
        THEN [ok |-> TRUE, num |-> sg * (NatOf(ip) * Pow10(Len(fp)) + NatOf(fp)), den |-> Pow10(Len(fp))]
        ELSE [ok |-> FALSE, num |-> 0, den |-> 1]

Rat(n) == [ok |-> TRUE, num |-> n, den |-> 1]

\* int(x) for a float x: truncation towards zero
TruncRat(x) == IF x.num >= 0 THEN x.num \div x.den ELSE -((-x.num) \div x.den)

RatLess(x, y) == x.num * y.den < y.num * x.den

RatLeq(x, y) == x.num * y.den <= y.num * x.den

\* x + 0.5
RatPlusHalf(x) == [ok |-> TRUE, num |-> 2 * x.num + x.den, den |-> 2 * x.den]

Pad2(n) == IF n < 10 THEN "0" \o NatStr(n) ELSE NatStr(n)

\* f"{x:.2f}": hundredths, rounded half up in magnitude
Fmt2f(x) ==
    LET a == IF x.num < 0 THEN -x.num ELSE x.num
        h == (2 * a * 100 + x.den) \div (2 * x.den)
    IN  (IF x.num < 0 /\ h > 0 THEN "-" ELSE "") \o NatStr(h \div 100) \o "." \o Pad2(h % 100)

(***************************************************************************)
(* ProfileManager                                                          *)
(*                                                                         *)
(* The profile file is a function from the field names written in it to    *)
(* the text after "name:" on that line.                                    *)
(***************************************************************************)
tech_list ==
    <<"python", "javascript", "react", "vue", "angular", "node", "nextjs",
      "dotnet", "aspnet", "java", "sql", "aws", "docker", "kubernetes">>

profile_fields ==
    {"name", "email", "phone", "location", "years_experience", "current_title",
     "linkedin", "github", "website", "resume_path", "expected_salary_in_egp",
     "expected_salary_in_usd", "work_experience", "education", "willing_to_relocate",
     "requires_sponsorship", "willing_to_commute", "notice_period", "remote_preference"}

\* match.group(1).strip() if match else ''
extract_field(content, field) ==
    IF field \in DOMAIN content THEN Strip(content[field]) ELSE ""

RECURSIVE SplitItems(_)
\* re.split(r'[,\n]', items)
SplitItems(s) ==
    LET a == Find(s, ",")
        b == Find(s, "\n")
        k == IF a = 0 THEN b ELSE IF b = 0 THEN a ELSE IF a < b THEN a ELSE b
    IN  IF k = 0 THEN <<s>>
        ELSE <<SubSeq(s, 1, k - 1)>> \o SplitItems(SubSeq(s, k + 1, Len(s)))

RECURSIVE StripItems(_)
\* [item.strip() for item in parts if item.strip()]
StripItems(parts) ==
    IF parts = <<>> THEN <<>>
    ELSE (IF Strip(parts[1]) # "" THEN <<Strip(parts[1])>> ELSE <<>>) \o StripItems(Tail(parts))

extract_list(content, field) ==
    IF field \in DOMAIN content THEN StripItems(SplitItems(Strip(content[field]))) ELSE <<>>

\* every listed key is set, to '' when the file has no such line
load_profile(content) ==
    [k \in profile_fields \cup {"skills"} \cup {tech_list[i] \o "_experience" : i \in 1..Len(tech_list)}
        |-> IF k = "skills" THEN extract_list(content, k) ELSE extract_field(content, k)]

\* p.get(key, default)
PGet(p, key, default) == IF key \in DOMAIN p THEN p[key] ELSE default

(***************************************************************************)
(* Field handles: an attribute that is absent reads as "" (every use in    *)
(* the source tests the attribute's truthiness, so None and '' agree).     *)
(***************************************************************************)
\* _get_field_label; label_found = FALSE makes find_element raise
get_field_label(el) ==
    IF el.aria_label # "" THEN el.aria_label
    ELSE IF el.id # ""
         THEN IF el.label_found THEN el.label_text ELSE ""
         ELSE el.placeholder

tech_keywords ==
    << <<"python", "python_experience">>, <<"javascript", "javascript_experience">>,
       <<"react", "react_experience">>, <<"vue", "vue_experience">>,
       <<"angular", "angular_experience">>, <<"node", "node_experience">>,
       <<"next.js", "nextjs_experience">>, <<"next", "nextjs_experience">>,
       <<".net", "dotnet_experience">>, <<"dotnet", "dotnet_experience">>,
       <<"asp.net", "aspnet_experience">>, <<"java", "java_experience">>,
       <<"c++", "cpp_experience">>, <<"c#", "csharp_experience">>,
       <<"sql", "sql_experience">>, <<"aws", "aws_experience">>,
       <<"docker", "docker_experience">>, <<"kubernetes", "kubernetes_experience">> >>

Max(a, b) == IF a >= b THEN a ELSE b

Min(a, b) == IF a <= b THEN a ELSE b

\* _format_years: any ValueError inside the try gives '1'
format_years(years, el) ==
    LET y  == ParseFloat(years)
        mn == ParseInt(el.min)
        mx == ParseInt(el.max)
        y0 == TruncRat(y)
        y1 == IF el.min # "" THEN Max(y0, mn.val) ELSE y0
        y2 == IF el.max # "" THEN Min(y1, mx.val) ELSE Min(y1, 99)
    IN  IF ~y.ok \/ (el.min # "" /\ ~mn.ok) \/ (el.max # "" /\ ~mx.ok)
        THEN "1"
        ELSE IntStr(Max(y2, 0))

\* _format_number: any ValueError inside the try gives str(value)
format_number(value, el) ==
    LET num       == ParseFloat(value)
        decimal   == el.step # "" /\ Contains(el.step, ".")
        formatted == IF decimal THEN Fmt2f(num) ELSE IntStr(TruncRat(num))
        min_float == ParseFloat(el.min)
    IN  IF ~num.ok THEN value
        ELSE IF el.min = "" THEN formatted
        ELSE IF ~min_float.ok THEN value
        ELSE IF RatLess(ParseFloat(formatted), min_float)
             THEN IF decimal THEN Fmt2f(RatPlusHalf(min_float))
                  ELSE IntStr(TruncRat(min_float) + 1)
             ELSE formatted

\* the technology rows of tech_keywords whose keyword is in the label, in order
TechHits(label_lower) ==
    SelectSeq(tech_keywords, LAMBDA row : Contains(label_lower, row[1]))

\* the years handed to _format_years (lines 595-602)
years_for_label(label_lower, p) ==
    IF TechHits(label_lower) # <<>>
    THEN PGet(p, TechHits(label_lower)[1][2], PGet(p, "years_experience", "0"))
    ELSE PGet(p, "years_experience", "0")

\* variant of salary_currency that takes any USD cue, an EGP cue or not
salary_currency_any_usd(label_lower) ==
    IF Contains(label_lower, "usd") \/ Contains(label_lower, "$") \/ Contains(label_lower, "dollar")
    THEN "usd" ELSE "egp"

\* lines 605-609
salary_currency(label_lower) ==
    IF /\ (Contains(label_lower, "usd") \/ Contains(label_lower, "$") \/ Contains(label_lower, "dollar"))
       /\ ~Contains(label_lower, "egp")
       /\ ~Contains(label_lower, "egyptian")
    THEN "usd" ELSE "egp"

RECURSIVE DigitRunLen(_)
DigitRunLen(s) == IF s # "" /\ IsDigit(Char(s, 1)) THEN 1 + DigitRunLen(Tail(s)) ELSE 0

RECURSIVE FirstDigits(_)
\* re.search(r'(\d+)', s).group(1), "" when there is no match
FirstDigits(s) ==
    IF s = "" THEN ""
    ELSE IF IsDigit(Char(s, 1)) THEN SubSeq(s, 1, DigitRunLen(s))
    ELSE FirstDigits(Tail(s))

\* lines 619-631
start_availability(notice) ==
    LET nl  == Lower(notice)
        num == FirstDigits(notice)
    IN  IF Contains(nl, "immediate") \/ Contains(nl, "asap") THEN "0"
        ELSE IF num # ""
             THEN IF Contains(nl, "week") THEN IntStr(NatOf(num) * 7)
                  ELSE IF Contains(nl, "month") THEN IntStr(NatOf(num) * 30)
                  ELSE num
        ELSE "30"

\* _get_field_value_with_validation from line 547 on, ll being label_lower
profile_value(ll, el, p) ==
    LET nm == PGet(p, "name", "")
    IN  IF Contains(ll, "email") THEN PGet(p, "email", "")
        ELSE IF Contains(ll, "phone") \/ Contains(ll, "mobile") THEN PGet(p, "phone", "")
        ELSE IF Contains(ll, "first name") \/ Contains(ll, "given name")
             THEN IF nm # "" THEN SplitWS(nm)[1] ELSE ""
        ELSE IF Contains(ll, "last name") \/ Contains(ll, "family name") \/ Contains(ll, "surname")
             THEN IF Len(SplitWS(nm)) > 1 THEN Join(Tail(SplitWS(nm)), " ") ELSE ""
        ELSE IF Contains(ll, "full name") /\ ~Contains(ll, "first") /\ ~Contains(ll, "last")
             THEN nm
        ELSE IF Contains(ll, "linkedin") THEN PGet(p, "linkedin", "")
        ELSE IF Contains(ll, "github") THEN PGet(p, "github", "")
        ELSE IF Contains(ll, "website") \/ Contains(ll, "portfolio") THEN PGet(p, "website", "")
        ELSE IF Contains(ll, "city") \/ (Contains(ll, "location") /\ ~Contains(ll, "relocate"))
             THEN IF PGet(p, "location", "") # ""
                  THEN Strip(SplitOn(PGet(p, "location", ""), ",")[1])
                  ELSE ""
        ELSE IF Contains(ll, "years") /\ Contains(ll, "experience")
             THEN format_years(years_for_label(ll, p), el)
        ELSE IF Contains(ll, "salary") \/ Contains(ll, "compensation")
             THEN IF salary_currency(ll) = "usd"
                  THEN format_number(PGet(p, "expected_salary_in_usd", "700"), el)
                  ELSE format_number(PGet(p, "expected_salary_in_egp", "30000"), el)
        ELSE IF Contains(ll, "start")
                /\ (Contains(ll, "date") \/ Contains(ll, "when") \/ Contains(ll, "available"))
             THEN start_availability(PGet(p, "notice_period", "1 month"))
        ELSE IF Contains(ll, "current company") \/ Contains(ll, "employer")
             THEN IF Contains(PGet(p, "work_experience", ""), "at ")
                  THEN Strip(SplitOn(SplitOn(PGet(p, "work_experience", ""), "at ")[2], "(")[1])
                  ELSE ""
        ELSE ""

\* _get_field_value_with_validation
get_field_value_with_validation(label, input_type, el, p) == profile_value(Lower(label), el, p)

(***************************************************************************)
(* GroqAgent.query                                                         *)
(*                                                                         *)
(* http is what the POST did: kind "ok" is a 200 response whose payload    *)
(* holds content; "status" a non-200 response; "malformed" a 200 response  *)
(* without choices[0].message.content; "timeout" and "unreachable" are     *)
(* exceptions of requests.post.                                            *)
(***************************************************************************)
HttpFailures == {"timeout", "status", "malformed", "unreachable"}

query(http) == IF http.kind = "ok" THEN Strip(http.content) ELSE ""

HttpOk(content) == [kind |-> "ok", content |-> content]

HttpFail(kind) == [kind |-> kind, content |-> ""]

(***************************************************************************)
(* QuestionClassifier and the lower tiers of the cascade                   *)
(***************************************************************************)
descriptive_keywords ==
    {"why", "describe", "tell us", "explain", "what makes",
     "how would", "your biggest", "your greatest",
     "achievement", "experience with", "motivate",
     "passion", "interest in", "fit for", "contribute",
     "challenge", "overcome", "learn", "strength",
     "weakness", "improve", "goal", "aspiration"}

DescriptiveMinLength == 50

\* variant of LongMinLength with >= in place of >
LongMinLength_geq(n) == n.ok /\ n.val >= DescriptiveMinLength

\* minlength and int(minlength) > 50, False when int() raises
LongMinLength(n) == n.ok /\ n.val > DescriptiveMinLength

\* _is_descriptive_question
is_descriptive_question(label, input_type, el) ==
    \/ el.tag = "textarea"
    \/ (el.minlength # "" /\ LongMinLength(ParseInt(el.minlength)))
    \/ ContainsAny(Lower(label), descriptive_keywords)

\* s[:n]
SliceTo(s, n) ==
    IF n >= 0 THEN SubSeq(s, 1, Min(n, Len(s))) ELSE SubSeq(s, 1, Max(Len(s) + n, 0))

\* ', '.join(p.get('skills', ['software development'])[:3])
SkillsText(p) ==
    LET sk == PGet(p, "skills", <<"software development">>)
    IN  Join(SubSeq(sk, 1, Min(3, Len(sk))), ", ")

\* _get_generic_answer from line 714 on, ll being label_lower
generic_answer(ll, p) ==
    LET we == PGet(p, "work_experience", "")
    IN  IF Contains(ll, "why") /\ Contains(ll, "company")
        THEN "I am excited about the opportunity to contribute my skills in " \o SkillsText(p)
             \o " to help drive innovation and growth."
        ELSE IF Contains(ll, "why") /\ (Contains(ll, "position") \/ Contains(ll, "role"))
        THEN "This role aligns perfectly with my " \o PGet(p, "years_experience", "2")
             \o " years of experience and passion for building impactful solutions."
        ELSE IF Contains(ll, "strength") \/ Contains(ll, "strong")
        THEN "My strengths include problem-solving, collaboration, and expertise in "
             \o SkillsText(p) \o "."
        ELSE IF Contains(ll, "weakness")
        THEN "I sometimes focus too deeply on perfecting details, but I've learned to balance thoroughness with meeting deadlines."
        ELSE IF Contains(ll, "achievement") \/ Contains(ll, "accomplish")
        THEN IF we # ""
             THEN IF Contains(we, "-") THEN Strip(SplitOn(we, "-")[2]) ELSE SliceTo(we, 150)
             ELSE "Successfully delivered multiple projects that improved system performance and user experience."
        ELSE IF Contains(ll, "challenge")
        THEN "I tackled complex technical challenges by breaking them into manageable parts, collaborating with team members, and continuously learning new approaches."
        ELSE IF Contains(ll, "goal")
        THEN "My goal is to continue growing as a " \o PGet(p, "current_title", "software engineer")
             \o " while contributing to meaningful projects that make a positive impact."
        ELSE IF Contains(ll, "learn") /\ Contains(ll, "company")
        THEN "I'm eager to learn from experienced team members, explore new technologies, and contribute to innovative projects."
        ELSE "I am highly motivated and committed to delivering quality work while continuously improving my skills."

\* _get_generic_answer
get_generic_answer(label, p) == generic_answer(Lower(label), p)

\* _ai_answer_field from line 806 on
checked_answer(answer, input_type, el) ==
    LET max_len == ParseInt(el.maxlength)
    IN  IF input_type = "number"
        THEN IF ParseFloat(answer).ok THEN answer ELSE "0"
        ELSE IF el.maxlength # "" /\ max_len.ok /\ Len(answer) > max_len.val
        THEN SliceTo(answer, max_len.val - 3) \o "..."
        ELSE answer

\* _ai_answer_field, given what the POST of query did; without an advisory
\* client the call of self.ai_agent.query raises and the handler returns ""
ai_answer_field(label, input_type, el, has_ai, http) ==
    IF ~has_ai THEN ""
    ELSE checked_answer(StripChar(StripChar(Strip(query(http)), "\""), "'"), input_type, el)

\* datetime.now() + timedelta(days=30), as '%Y-%m-%d'
future_date == "2026-12-03"

\* _get_safe_default from line 833 on, ll being label_lower
safe_default(ll, input_type, el) ==
    IF input_type = "number"
    THEN IF Contains(ll, "experience") \/ Contains(ll, "years") THEN "0"
         ELSE IF el.min # "" /\ ParseFloat(el.min).ok THEN IntStr(TruncRat(ParseFloat(el.min)))
         ELSE "1"
    ELSE IF Contains(ll, "start") \/ Contains(ll, "available") \/ Contains(ll, "join")
    THEN IF Contains(ll, "date") THEN future_date ELSE "30"
    ELSE ""

\* _get_safe_default
get_safe_default(label, input_type, el) == safe_default(Lower(label), input_type, el)

\* input_type = field.get_attribute('type') or 'text'
InputType(el) == IF el.type # "" THEN el.type ELSE "text"

\* lines 458-459 and 512-513
or_safe_default(value, label, ty, el) ==
    IF value # "" THEN value ELSE get_safe_default(label, ty, el)

\* lines 447-456
or_advisory(value, label, ty, el, p, has_ai, http) ==
    IF value # "" THEN value
    ELSE IF is_descriptive_question(label, ty, el)
         THEN IF has_ai THEN ai_answer_field(label, ty, el, has_ai, http)
              ELSE get_generic_answer(label, p)
    ELSE IF has_ai THEN ai_answer_field(label, ty, el, has_ai, http)
    ELSE ""

\* lines 440-459: the value the main loop of the fill pass decides to write
resolve_labelled(label, ty, el, p, has_ai, http) ==
    or_safe_default(
        or_advisory(get_field_value_with_validation(label, ty, el, p), label, ty, el, p, has_ai, http),
        label, ty, el)

resolve_value(el, p, has_ai, http) ==
    resolve_labelled(get_field_label(el), InputType(el), el, p, has_ai, http)

\* lines 510-511
or_repair_advisory(value, label, ty, el, has_ai, http) ==
    IF value = "" /\ has_ai THEN ai_answer_field(label, ty, el, has_ai, http) ELSE value

\* lines 506-513: the value the validation-repair sweep decides to write
repair_labelled(label, ty, el, p, has_ai, http) ==
    or_safe_default(
        or_repair_advisory(get_field_value_with_validation(label, ty, el, p), label, ty, el, has_ai, http),
        label, ty, el)

repair_value(el, p, has_ai, http) ==
    repair_labelled(get_field_label(el), InputType(el), el, p, has_ai, http)

(***************************************************************************)
(* ChoiceResolver: dropdowns                                               *)
(*                                                                         *)
(* A dropdown has options [text, value] and the index of the selected one; *)
(* its value is the value of the selected option.  ops lists the           *)
(* mutations dispatched on a field: "clear", "keys", "tab", "select".      *)
(***************************************************************************)
\* Select.select_by_index / select_by_visible_text: clicks the option unless
\* it is the selected one already
SelectOption(el, i) ==
    IF el.selected = i THEN el
    ELSE [el EXCEPT !.selected = i, !.value = el.options[i].value, !.ops = Append(@, "select")]

FirstIn(S) == CHOOSE i \in S : \A j \in S : i <= j

\* _select_best_option: the dropdown after the call
select_best_option(el, label) ==
    LET ll      == Lower(label)
        n       == Len(el.options)
        start   == IF ContainsAny(Lower(el.options[1].text), {"select", "choose", "please"})
                   THEN 2 ELSE 1
        byText(t) == FirstIn({i \in 1..n : el.options[i].text = t})
        edu     == {i \in start..n : ContainsAny(Lower(el.options[i].text), {"bachelor", "bsc", "b.s"})}
        lang    == {i \in start..n : ContainsAny(Lower(el.options[i].text), {"professional", "fluent", "advanced"})}
    IN  IF n <= 1 THEN el
        ELSE IF (Contains(ll, "education") \/ Contains(ll, "degree")) /\ edu # {}
             THEN SelectOption(el, byText(el.options[FirstIn(edu)].text))
        ELSE IF (Contains(ll, "english") \/ Contains(ll, "language")) /\ lang # {}
             THEN SelectOption(el, byText(el.options[FirstIn(lang)].text))
        ELSE IF n >= start THEN SelectOption(el, start)
        ELSE el

(***************************************************************************)
(* ChoiceResolver: radio/checkbox fieldsets                                *)
(*                                                                         *)
(* A group has the question text, its kind and options [text, selected,    *)
(* has_input, click_ok, input_click_ok]; clicks lists the options on which *)
(* a click was dispatched, in order.                                       *)
(***************************************************************************)
\* the effect of a click that the document accepts
ClickOption(g, i) ==
    [g EXCEPT !.clicks = Append(@, i),
              !.options = [k \in 1..Len(g.options) |->
                  IF g.kind = "radio"
                  THEN [g.options[k] EXCEPT !.selected = (k = i)]
                  ELSE IF k = i THEN [g.options[k] EXCEPT !.selected = ~@] ELSE g.options[k]]]

\* a click that raises changes nothing
TryClick(g, i, ok) == IF ok THEN ClickOption(g, i) ELSE g

\* input_elem.is_selected() inside its try: a label without input raises
SeenSelected(o) == o.has_input /\ o.selected

yes_words == {"yes", "i am", "i do", "willing", "able"}

no_words == {"no", "not", "don't", "unable", "do not require"}

\* _select_radio_option: [g |-> the group after the call, ret |-> the result]
select_radio_option(g, target) ==
    LET tl       == Lower(target)
        n        == Len(g.options)
        text(i)  == Lower(g.options[i].text)
        match(i) == Contains(text(i), tl) \/ Contains(tl, text(i))
        canClick(i) == g.options[i].click_ok \/ (g.options[i].has_input /\ g.options[i].input_click_ok)
        \* first loop: the first label at which the loop returns
        stop1    == {i \in 1..n : SeenSelected(g.options[i]) \/ (match(i) /\ canClick(i))}
        words    == IF tl = "yes" THEN yes_words ELSE IF tl = "no" THEN no_words ELSE {}
        stop2    == {i \in 1..n : ContainsAny(text(i), words) /\ g.options[i].click_ok}
    IN  IF stop1 # {}
        THEN IF SeenSelected(g.options[FirstIn(stop1)])
             THEN [g |-> g, ret |-> TRUE]
             ELSE [g |-> ClickOption(g, FirstIn(stop1)), ret |-> TRUE]
        ELSE IF stop2 # {} THEN [g |-> ClickOption(g, FirstIn(stop2)), ret |-> TRUE]
        ELSE [g |-> g, ret |-> FALSE]

NoTarget == "<none>"

\* lines 918-965: the target answer of a question, NoTarget when the question
\* belongs to no keyword family
question_target(question_text, p) ==
    LET q == Lower(question_text)
    IN  IF ContainsAny(q, {"commut", "location", "travel to"})
        THEN IF Lower(PGet(p, "willing_to_commute", "yes")) = "yes" THEN "yes" ELSE "no"
        ELSE IF ContainsAny(q, {"sponsorship", "visa", "work authorization", "authorized to work", "right to work"})
        THEN IF Lower(PGet(p, "requires_sponsorship", "no")) = "no" THEN "no" ELSE "yes"
        ELSE IF ContainsAny(q, {"relocat", "willing to move", "open to relocat"})
        THEN IF Lower(PGet(p, "willing_to_relocate", "yes")) = "yes" THEN "yes" ELSE "no"
        ELSE IF ContainsAny(q, {"remote", "work from home", "hybrid"})
        THEN IF Contains(Lower(PGet(p, "remote_preference", "hybrid")), "hybrid") THEN "hybrid"
             ELSE IF Contains(Lower(PGet(p, "remote_preference", "hybrid")), "remote") THEN "remote"
             ELSE "yes"
        ELSE IF Contains(q, "clearance") \/ Contains(q, "security") THEN "no"
        ELSE IF Contains(q, "background check") \/ Contains(q, "background screening") THEN "yes"
        ELSE IF Contains(q, "drug") /\ Contains(q, "test") THEN "yes"
        ELSE IF ContainsAny(q, {"18 years", "legal age", "age of majority"}) THEN "yes"
        ELSE IF Contains(q, "eligible to work") \/ Contains(q, "legally authorized") THEN "yes"
        ELSE IF Contains(q, "previously applied") \/ Contains(q, "applied before") THEN "no"
        ELSE IF Contains(q, "know anyone") \/ Contains(q, "employee referral") THEN "no"
        ELSE IF Contains(q, "immediately") \/ Contains(q, "urgent") THEN "yes"
        ELSE NoTarget

\* the body of the fieldset loop of _handle_questions: the group after it
handle_question(g, p) ==
    LET target == question_target(g.question, p)
        r      == IF target = NoTarget THEN [g |-> g, ret |-> FALSE]
                  ELSE select_radio_option(g, target)
    IN  IF g.options = <<>> THEN g
        ELSE IF r.ret THEN r.g
        ELSE IF r.g.options[1].has_input /\ ~r.g.options[1].selected
             THEN TryClick(r.g, 1, r.g.options[1].click_ok)
        ELSE r.g

\* _handle_questions over the fieldsets of the document
handle_questions(groups, p) == [k \in 1..Len(groups) |-> handle_question(groups[k], p)]

(***************************************************************************)
(* FormFillPass                                                            *)
(*                                                                         *)
(* A form is [fields, groups, file_input, uploads]: the text inputs,       *)
(* textareas and dropdowns of the document in document order, its          *)
(* fieldsets, whether it has a file-upload control and how many times a    *)
(* file was attached.  A field with stale = TRUE raises on every access.   *)
(***************************************************************************)
\* field.clear(); field.send_keys(str(value)); field.send_keys(Keys.TAB)
WriteValue(el, v) == [el EXCEPT !.value = v, !.ops = @ \o <<"clear", "keys", "tab">>]

\* current_value and current_value.strip()
HasCurrentValue(el) == el.value # "" /\ Strip(el.value) # ""

\* variant of WriteIfValue that writes whatever the cascade gave
WriteIfValue_always(el, v) == WriteValue(el, v)

\* lines 461-471
WriteIfValue(el, v) == IF v # "" THEN WriteValue(el, v) ELSE el

\* lines 435-475: one iteration of the main loop
fill_field(el, p, has_ai, http) ==
    IF el.stale \/ HasCurrentValue(el) THEN el
    ELSE WriteIfValue(el, resolve_value(el, p, has_ai, http))

\* lines 480-488: one iteration of the dropdown loop
fill_select(el) ==
    IF el.stale \/ Len(el.options) <= 1 THEN el
    ELSE select_best_option(el, get_field_label(el))

IsSimple(el) == el.tag \in {"input", "textarea"}

IsSelect(el) == el.tag = "select"

RECURSIVE repair_inputs(_, _, _, _, _)
\* variant of repair_inputs that does not look at the input's value
repair_inputs_always(fields, idxs, p, has_ai, http) ==
    IF idxs = {} THEN fields
    ELSE LET k  == FirstIn(idxs)
             el == fields[k]
             v  == repair_value(el, p, has_ai, http[k])
         IN  IF el.stale THEN fields
             ELSE IF v = ""
                  THEN repair_inputs(fields, idxs \ {k}, p, has_ai, http)
             ELSE IF IsSelect(el) THEN fields
             ELSE repair_inputs([fields EXCEPT ![k] = WriteValue(el, v)], idxs \ {k}, p, has_ai, http)

\* lines 504-520: the inputs under one error element, in document order; an
\* exception (a stale input, clear() on a dropdown) ends the loop
repair_inputs(fields, idxs, p, has_ai, http) ==
    IF idxs = {} THEN fields
    ELSE LET k  == FirstIn(idxs)
             el == fields[k]
             v  == repair_value(el, p, has_ai, http[k])
         IN  IF el.stale THEN fields
             ELSE IF el.value # "" \/ v = ""
                  THEN repair_inputs(fields, idxs \ {k}, p, has_ai, http)
             ELSE IF IsSelect(el) THEN fields
             ELSE repair_inputs([fields EXCEPT ![k] = WriteValue(el, v)], idxs \ {k}, p, has_ai, http)

RECURSIVE repair_sweep(_, _, _, _, _)
\* lines 493-522: errs lists, for each validation-error element found, the
\* inputs under its parent
repair_sweep(fields, errs, p, has_ai, http) ==
    IF errs = <<>> THEN fields
    ELSE repair_sweep(repair_inputs(fields, errs[1], p, has_ai, http), Tail(errs), p, has_ai, http)

\* _upload_resume
upload_resume(form, p, resume_exists) ==
    IF PGet(p, "resume_path", "") # "" /\ resume_exists /\ form.file_input
    THEN [form EXCEPT !.uploads = @ + 1]
    ELSE form

\* the parts of _fill_application_form in the order in which they run: the
\* main loop (434-475), the dropdowns (477-488), _handle_questions (490), the
\* loop over the validation errors when there are any (495-522) and
\* _upload_resume (524)
fill_phases(errs) ==
    <<"fields", "selects", "questions">>
    \o (IF errs # <<>> THEN <<"repair">> ELSE <<>>)
    \o <<"upload">>

\* one part of the pass applied to the form
apply_phase(phase, fm, p, has_ai, http1, http2, errs, resume_exists) ==
    LET n == Len(fm.fields)
    IN  CASE phase = "fields" ->
               [fm EXCEPT !.fields = [k \in 1..n |-> IF IsSimple(fm.fields[k])
                                                     THEN fill_field(fm.fields[k], p, has_ai, http1[k])
                                                     ELSE fm.fields[k]]]
          [] phase = "selects" ->
               [fm EXCEPT !.fields = [k \in 1..n |-> IF IsSelect(fm.fields[k])
                                                     THEN fill_select(fm.fields[k])
                                                     ELSE fm.fields[k]]]
          [] phase = "questions" -> [fm EXCEPT !.groups = handle_questions(fm.groups, p)]
          [] phase = "repair" -> [fm EXCEPT !.fields = repair_sweep(fm.fields, errs, p, has_ai, http2)]
          [] phase = "upload" -> upload_resume(fm, p, resume_exists)

RECURSIVE run_phases(_, _, _, _, _, _, _, _)
run_phases(phases, fm, p, has_ai, http1, http2, errs, resume_exists) ==
    IF phases = <<>> THEN fm
    ELSE run_phases(Tail(phases),
                    apply_phase(Head(phases), fm, p, has_ai, http1, http2, errs, resume_exists),
                    p, has_ai, http1, http2, errs, resume_exists)

\* _fill_application_form: http1 and http2 give, per field, what the advisory
\* POST does in the main loop and in the repair sweep
fill_application_form(form, p, has_ai, http1, http2, errs, resume_exists) ==
    run_phases(fill_phases(errs), form, p, has_ai, http1, http2, errs, resume_exists)

(***************************************************************************)
(* EligibilityGate                                                         *)
(***************************************************************************)
eng_keywords ==
    {"software engineer", "developer", "programmer", "backend", "frontend", "full stack", "fullstack"}

\* GroqAgent.should_apply, the body of its try (lines 134-136)
should_apply_try(job_description, http) ==
    [apply |-> Contains(SliceTo(Lower(query(http)), 20), "yes"), reason |-> query(http)]

\* the except branch (lines 139-142)
should_apply_fallback(job_description) ==
    LET has_eng == ContainsAny(Lower(job_description), eng_keywords)
    IN  [apply |-> has_eng, reason |-> IF has_eng THEN "Keyword match" ELSE "No match"]

\* GroqAgent.should_apply: query() catches every exception of the POST and
\* returns "", so nothing raises inside the try and its result is returned
should_apply(job_description, http) == should_apply_try(job_description, http)

(***************************************************************************)
(* ApplicationFlow: the document as the flow observes it                   *)
(*                                                                         *)
(* A page is [phrase, done, modal, controls]: whether the page source      *)
(* holds a success phrase, whether a "Done" control exists, the state of   *)
(* the hosting modal ("shown", "hidden", "absent") and, for each kind of   *)
(* progression control, "none", "enabled" or "disabled".                   *)
(***************************************************************************)
max_steps == 10

click_attempts == 3

max_applications == 10

\* variant of is_application_complete that does not look for a "Done" control
is_application_complete_no_done(pg, src_ok) ==
    IF ~src_ok THEN FALSE
    ELSE IF pg.phrase THEN TRUE
    ELSE pg.modal # "shown"

\* _is_application_complete; src_ok = FALSE: reading page_source raises
is_application_complete(pg, src_ok) ==
    IF ~src_ok THEN FALSE
    ELSE IF pg.phrase THEN TRUE
    ELSE IF pg.done THEN TRUE
    ELSE pg.modal # "shown"

control_order == <<"submit", "review", "next", "text">>

\* variant of find_button that passes over a disabled control
find_button_enabled(pg) ==
    LET present == {k \in 1..Len(control_order) : pg.controls[control_order[k]] = "enabled"}
    IN  IF present = {} THEN "none" ELSE control_order[FirstIn(present)]

\* lines 1066-1098: the control the priority search ends with, "none" if none
find_button(pg) ==
    LET present == {k \in 1..Len(control_order) : pg.controls[control_order[k]] # "none"}
    IN  IF present = {} THEN "none" ELSE control_order[FirstIn(present)]

\* variant of click_next_button that gives up when its first attempt raises
click_next_button_no_retry(pg, att) ==
    LET b == find_button(pg)
    IN  IF att[1] # "ok" \/ b = "none" \/ pg.controls[b] = "disabled"
        THEN [ret |-> FALSE, attempts |-> 1, clicked |-> "none"]
        ELSE [ret |-> TRUE, attempts |-> 1, clicked |-> b]

\* _click_next_button; att[k] is what happens in attempt k: "ok", or "stale" /
\* "error" when the attempt raises before the click is dispatched
click_next_button(pg, att) ==
    LET run == {k \in 1..click_attempts : att[k] = "ok"}
        b   == find_button(pg)
    IN  IF run = {} THEN [ret |-> FALSE, attempts |-> click_attempts, clicked |-> "none"]
        ELSE IF b = "none" \/ pg.controls[b] = "disabled"
             THEN [ret |-> FALSE, attempts |-> FirstIn(run), clicked |-> "none"]
        ELSE [ret |-> TRUE, attempts |-> FirstIn(run), clicked |-> b]

\* variant of steps_exhausted that lets one more cycle run
steps_exhausted_late(steps) == steps > max_steps

\* for step in range(max_steps): the loop is over after steps cycles
steps_exhausted(steps) == steps >= max_steps

(***************************************************************************)
(* History file                                                            *)
(*                                                                         *)
(* disk is [state, job_ids, applications]; state is "absent", "ok" or      *)
(* "corrupt" (not parseable as JSON, e.g. after a write that broke off).   *)
(***************************************************************************)
NoFile == [state |-> "absent", job_ids |-> {}, applications |-> <<>>]

CorruptFile == [state |-> "corrupt", job_ids |-> {}, applications |-> <<>>]

\* load_applied_jobs: raises when the file is there and is not JSON
load_applied_jobs(d) ==
    IF d.state = "corrupt" THEN [raised |-> TRUE, jobs |-> {}]
    ELSE [raised |-> FALSE, jobs |-> d.job_ids]

\* save_applied_job: the file after the call.  io is "ok", "read_error" (the
\* file cannot be opened for reading) or "write_error" (the dump breaks off
\* after the file was truncated)
save_applied_job(d, jobs, job_app, io) ==
    IF d.state = "corrupt" \/ io = "read_error" THEN d
    ELSE IF io = "write_error" THEN CorruptFile
    ELSE [state |-> "ok", job_ids |-> jobs, applications |-> Append(d.applications, job_app)]

\* variant of already_applied that never finds the job
already_applied_never(job_id, jobs) == FALSE

\* job_id in self.applied_jobs
already_applied(job_id, jobs) == job_id \in jobs

(***************************************************************************)
(* The inputs the environment draws from                                   *)
(***************************************************************************)
MaxRuns == 2

MaxSearched == 2

JobIds == {"4101", "4102"}

Titles == {"", "Backend Developer"}

Descriptions == {"We need a Backend Developer for our platform", "Sales associate for a retail store"}

GateHttp ==
    {HttpOk("YES - a software role"), HttpOk("NO - not an engineering role")}
        \cup {HttpFail(k) : k \in HttpFailures}

BaseProfileFile ==
    [name |-> "Sara Adel Nour", email |-> "sara@example.com", years_experience |-> "3",
     skills |-> "Python, SQL", expected_salary_in_usd |-> "800",
     expected_salary_in_egp |-> "30000", resume_path |-> "cv.pdf"]

RunProfileFiles == {BaseProfileFile}

Controls(su, rv, nx, tx) == [submit |-> su, review |-> rv, next |-> nx, text |-> tx]

Page(phrase, done, modal, controls) ==
    [phrase |-> phrase, done |-> done, modal |-> modal, controls |-> controls]

Pages ==
    {Page(FALSE, FALSE, "shown", Controls("none", "none", "enabled", "none")),
     Page(FALSE, FALSE, "shown", Controls("none", "none", "disabled", "none")),
     Page(FALSE, FALSE, "shown", Controls("enabled", "none", "none", "none")),
     Page(FALSE, FALSE, "shown", Controls("disabled", "none", "enabled", "none")),
     Page(FALSE, FALSE, "shown", Controls("none", "none", "none", "none")),
     Page(TRUE, FALSE, "shown", Controls("none", "none", "none", "none")),
     Page(FALSE, TRUE, "shown", Controls("none", "none", "none", "none")),
     Page(FALSE, FALSE, "hidden", Controls("none", "none", "enabled", "none")),
     Page(FALSE, FALSE, "absent", Controls("none", "none", "none", "none"))}

NoPage == Page(FALSE, FALSE, "absent", Controls("none", "none", "none", "none"))

\* an <input> or <textarea> with an accessible name
Input(tag, type, label, value, min, max, step, minlength, maxlength) ==
    [tag |-> tag, type |-> type, aria_label |-> label, id |-> "", label_found |-> FALSE,
     label_text |-> "", placeholder |-> "", value |-> value, min |-> min, max |-> max,
     step |-> step, minlength |-> minlength, maxlength |-> maxlength, stale |-> FALSE,
     options |-> <<>>, selected |-> 0, ops |-> <<>>]

Opt(text, value) == [text |-> text, value |-> value]

\* a <select> with an accessible name; its value is that of the selected option
Dropdown(label, options, selected) ==
    [tag |-> "select", type |-> "select-one", aria_label |-> label, id |-> "",
     label_found |-> FALSE, label_text |-> "", placeholder |-> "",
     value |-> options[selected].value, min |-> "", max |-> "", step |-> "",
     minlength |-> "", maxlength |-> "", stale |-> FALSE,
     options |-> options, selected |-> selected, ops |-> <<>>]

Choice(text, selected) ==
    [text |-> text, selected |-> selected, has_input |-> TRUE, click_ok |-> TRUE,
     input_click_ok |-> TRUE]

Group(kind, question, options) ==
    [kind |-> kind, question |-> question, options |-> options, clicks |-> <<>>]

Form(fields, groups) ==
    [fields |-> fields, groups |-> groups, file_input |-> TRUE, uploads |-> 0]

NoForm == [fields |-> <<>>, groups |-> <<>>, file_input |-> FALSE, uploads |-> 0]

\* the forms the steps of a flow show
Forms == {Form(<<Input("input", "email", "Email address", "", "", "", "", "", "")>>, <<>>)}

AIHttp == {HttpFail("timeout"), HttpOk("5"), HttpOk("I enjoy solving hard problems.")}

\* the validation errors a pass may find: none, or one whose parent holds
\* every field, or one per field
ErrorLists(n) ==
    {<<>>} \cup (IF n = 0 THEN {} ELSE {<<1..n>>, [k \in 1..n |-> {k}]})

\* two validation errors under the parent that holds every field
RepeatedErrors(n) == IF n = 0 THEN {} ELSE {<<1..n, 1..n>>}

(***************************************************************************)
(* State                                                                   *)
(***************************************************************************)
VARIABLES
    pc,                     \* "off": no run; "loop": in run() between jobs;
                            \* "check", "fill", "click": inside _complete_application
    run_no,                 \* runs started so far
    disk,                   \* applied_jobs.json
    applied_jobs,           \* self.applied_jobs
    session_stats,          \* self.session_stats
    applications_submitted, \* local of run()
    ai_agent,               \* TRUE iff self.ai_agent is not None
    profile,                \* self.profile_manager.profile_data
    job,                    \* job_id and title of the job being processed
    step,                   \* cycles of _complete_application completed
    page,                   \* the document's completion signals and controls
    form,                   \* the document's fields and fieldsets
    obs,                    \* what happened to the current job (history)
    unit                    \* input and result of a function applied on its own

vars ==
    <<pc, run_no, disk, applied_jobs, session_stats, applications_submitted, ai_agent,
      profile, job, step, page, form, obs, unit>>

NoJob == [job_id |-> "", title |-> ""]

NoGate == [called |-> FALSE, http |-> "none", description |-> "", apply |-> FALSE, reason |-> ""]

\* result: "none" while the job is in progress, then how process_current_job
\* ended: "no_id", "skip_applied", "skip_gate", "skip_easy", "error",
\* "completed" or "failed".  landed: the document the last progression click
\* led to satisfies the completion predicate; missed: the last completion check
\* returned False on such a document because reading page_source raised
NoObs ==
    [result |-> "none", reason |-> "", fills |-> 0, clicks |-> 0, closes |-> 0,
     recorded |-> FALSE, io |-> "none", gate |-> NoGate, pass_start |-> NoForm,
     landed |-> FALSE, missed |-> FALSE]

NoUnit == [fn |-> "none"]

ZeroStats == [searched |-> 0, applied |-> 0, skipped |-> 0, errors |-> 0]

\* before the first run: no history file
Init ==
    /\ pc = "off"
    /\ run_no = 0
    /\ disk = NoFile
    /\ applied_jobs = {}
    /\ session_stats = ZeroStats
    /\ applications_submitted = 0
    /\ ai_agent = FALSE
    /\ profile = load_profile(BaseProfileFile)
    /\ job = NoJob
    /\ step = 0
    /\ page = NoPage
    /\ form = NoForm
    /\ obs = NoObs
    /\ unit = NoUnit

(***************************************************************************)
(* LinkedInJobAgent.__init__ and run() up to the loop                      *)
(***************************************************************************)
\* groq_ok: GroqAgent() did not raise; setup_ok: login and search succeeded
StartRun(file, groq_ok, setup_ok) ==
    /\ pc = "off"
    /\ run_no < MaxRuns
    /\ run_no' = run_no + 1
    /\ IF load_applied_jobs(disk).raised
       THEN UNCHANGED <<pc, applied_jobs, session_stats, applications_submitted, ai_agent, profile>>
       ELSE /\ profile' = load_profile(file)
            /\ ai_agent' = groq_ok
            /\ applied_jobs' = load_applied_jobs(disk).jobs
            /\ session_stats' = ZeroStats
            /\ applications_submitted' = 0
            /\ pc' = IF setup_ok THEN "loop" ELSE "off"
    /\ UNCHANGED <<disk, job, step, page, form, obs, unit>>

\* the while loop of run() ends: no more jobs, or max_applications reached
EndRun ==
    /\ pc = "loop"
    /\ pc' = "off"
    /\ UNCHANGED <<run_no, disk, applied_jobs, session_stats, applications_submitted,
                   ai_agent, profile, job, step, page, form, obs, unit>>

\* lines 1262-1284: on to the next job card
NextCard ==
    /\ pc = "done"
    /\ pc' = "loop"
    /\ job' = NoJob
    /\ obs' = NoObs
    /\ UNCHANGED <<run_no, disk, applied_jobs, session_stats, applications_submitted,
                   ai_agent, profile, step, page, form, unit>>

Bump(stats, counter) == [stats EXCEPT ![counter] = @ + 1]

\* process_current_job returns without having started the flow
Return(result, stats, gate) ==
    /\ pc' = "done"
    /\ session_stats' = stats
    /\ obs' = [NoObs EXCEPT !.result = result, !.gate = gate]
    /\ UNCHANGED <<step, page, form>>

(***************************************************************************)
(* process_current_job up to the call of _complete_application, with the   *)
(* increment of searched that precedes it in run()                         *)
(*                                                                         *)
(* easy is what waiting for and clicking the Easy Apply control does:      *)
(* "ok", "timeout" (TimeoutException) or "error" (another exception).      *)
(***************************************************************************)
BeginJob(job_id, title) ==
    LET searched == Bump(session_stats, "searched")
    IN
    /\ pc = "loop"
    /\ applications_submitted < max_applications
    /\ session_stats.searched < MaxSearched
    /\ job' = [job_id |-> job_id, title |-> title]
    /\ IF job_id = "" \/ title = ""
       THEN Return("no_id", searched, NoGate)
       ELSE IF already_applied(job_id, applied_jobs)
       THEN Return("skip_applied", Bump(searched, "skipped"), NoGate)
       ELSE \E description \in Descriptions, http \in GateHttp :
            LET gate  == should_apply(description, http)
                gated == IF ai_agent
                         THEN [called |-> TRUE, http |-> http.kind, description |-> description,
                               apply |-> gate.apply, reason |-> gate.reason]
                         ELSE NoGate
            IN  IF ai_agent /\ ~gate.apply
                THEN Return("skip_gate", Bump(searched, "skipped"), gated)
                ELSE \E easy \in {"ok", "timeout", "error"} :
                     IF easy = "timeout"
                     THEN Return("skip_easy", Bump(searched, "skipped"), gated)
                     ELSE IF easy = "error"
                     THEN Return("error", Bump(searched, "errors"), gated)
                     ELSE /\ session_stats' = searched
                          /\ pc' = "check"
                          /\ step' = 0
                          /\ obs' = NoObs
                          /\ \E pg \in Pages : page' = pg
                          /\ \E fm \in Forms : form' = fm
    /\ UNCHANGED <<run_no, disk, applied_jobs, applications_submitted, ai_agent, profile, unit>>

(***************************************************************************)
(* _complete_application, one action per position in a cycle, and the rest *)
(* of process_current_job after it returns                                 *)
(***************************************************************************)
JobApplication(j, status) == [job_id |-> j.job_id, title |-> j.title, status |-> status]

\* process_current_job returns after the flow
Leave(o) ==
    /\ pc' = "done"
    /\ page' = NoPage
    /\ form' = NoForm
    /\ step' = 0
    /\ obs' = o

\* variant of Fail that returns False without _close_modal
Fail_no_close(o, reason) ==
    Leave([o EXCEPT !.result = "failed", !.reason = reason])

\* _close_modal and return False
Fail(o, reason) ==
    Leave([o EXCEPT !.result = "failed", !.reason = reason, !.closes = @ + 1])

\* lines 404-405 and, when the flow is complete, lines 341-354.  src_ok =
\* FALSE: reading page_source raises; url_ok = FALSE: reading
\* driver.current_url raises; io: see save_applied_job
FlowCheck(src_ok) ==
    /\ pc = "check"
    /\ IF is_application_complete(page, src_ok)
       THEN /\ applied_jobs' = applied_jobs \cup {job.job_id}
            /\ \E url_ok \in BOOLEAN :
               IF url_ok
               THEN \E io \in {"ok", "read_error", "write_error"} :
                    /\ disk' = save_applied_job(disk, applied_jobs', JobApplication(job, "submitted"), io)
                    /\ session_stats' = Bump(session_stats, "applied")
                    /\ applications_submitted' = applications_submitted + 1
                    /\ Leave([obs EXCEPT !.result = "completed", !.reason = "complete",
                                         !.io = io,
                                         !.recorded = (disk'.applications # disk.applications)])
               ELSE /\ session_stats' = Bump(session_stats, "errors")
                    /\ Leave([obs EXCEPT !.result = "error", !.reason = "complete"])
                    /\ UNCHANGED <<disk, applications_submitted>>
       ELSE /\ pc' = "fill"
            /\ obs' = [obs EXCEPT !.missed = ~src_ok /\ is_application_complete(page, TRUE)]
            /\ UNCHANGED <<disk, applied_jobs, session_stats, applications_submitted,
                           step, page, form>>
    /\ UNCHANGED <<run_no, ai_agent, profile, job, unit>>

\* variant of FillPass in which a pass that wrote no field ends the flow
FillPass_fatal(http1, http2, errs, resume_exists) ==
    LET f == fill_application_form(form, profile, ai_agent, http1, http2, errs, resume_exists)
        o == [obs EXCEPT !.fills = @ + 1, !.pass_start = form]
    IN
    /\ pc = "fill"
    /\ IF f.fields = form.fields
       THEN Fail(o, "fill")
       ELSE /\ form' = f
            /\ obs' = o
            /\ pc' = "click"
            /\ UNCHANGED <<step, page>>
    /\ UNCHANGED <<run_no, disk, applied_jobs, session_stats, applications_submitted,
                   ai_agent, profile, job>>

\* line 407: one call of _fill_application_form
FillPass(http1, http2, errs, resume_exists) ==
    /\ pc = "fill"
    /\ form' = fill_application_form(form, profile, ai_agent, http1, http2, errs, resume_exists)
    /\ obs' = [obs EXCEPT !.fills = @ + 1, !.pass_start = form]
    /\ pc' = "click"
    /\ UNCHANGED <<run_no, disk, applied_jobs, session_stats, applications_submitted,
                   ai_agent, profile, job, step, page>>

\* line 407
FlowFill(http1, http2, errs, resume_exists) ==
    /\ FillPass(http1, http2, errs, resume_exists)
    /\ UNCHANGED unit

\* lines 410-423: the advance, the end of the cycle and, after the last cycle,
\* the end of the loop; the document shows a new page and form after a click
ClickStep(att) ==
    LET r == click_next_button(page, att)
    IN
    /\ pc = "click"
    /\ IF ~r.ret
       THEN Fail(obs, "click")
       ELSE \E pg \in Pages :
            LET o == [obs EXCEPT !.clicks = @ + 1, !.missed = FALSE,
                                 !.landed = is_application_complete(pg, TRUE)]
            IN  IF steps_exhausted(step + 1)
                THEN Fail(o, "bound")
                ELSE /\ pc' = "check"
                     /\ step' = step + 1
                     /\ obs' = o
                     /\ page' = pg
                     /\ \E fm \in Forms : form' = fm
    /\ UNCHANGED <<run_no, disk, applied_jobs, session_stats, applications_submitted,
                   ai_agent, profile, job>>

\* lines 410-423
FlowClick(att) ==
    /\ ClickStep(att)
    /\ UNCHANGED unit

Attempts == [1..click_attempts -> {"ok", "stale", "error"}]

\* what the advisory POST does for each field; without a client none is made
HttpPerField(fm) ==
    IF ai_agent THEN [1..Len(fm.fields) -> AIHttp]
    ELSE {[k \in 1..Len(fm.fields) |-> HttpFail("unreachable")]}

Next ==
    \/ \E file \in RunProfileFiles, groq_ok \in BOOLEAN, setup_ok \in BOOLEAN :
          StartRun(file, groq_ok, setup_ok)
    \/ EndRun
    \/ NextCard
    \/ \E job_id \in JobIds \cup {""}, title \in Titles : BeginJob(job_id, title)
    \/ \E src_ok \in BOOLEAN : FlowCheck(src_ok)
    \/ \E http1 \in HttpPerField(form), errs \in ErrorLists(Len(form.fields)),
          resume_exists \in BOOLEAN :
          \E http2 \in IF errs = <<>> THEN {http1} ELSE HttpPerField(form) :
             FlowFill(http1, http2, errs, resume_exists)
    \/ \E att \in Attempts : FlowClick(att)

Spec == Init /\ [][Next]_vars

(***************************************************************************)
(* One fill pass on its own: a flow that has reached line 407 on some      *)
(* document, with some profile, with or without an advisory client         *)
(***************************************************************************)
Text(label, value) == Input("input", "text", label, value, "", "", "", "", "")

Number(label, value, mn, mx, stp) == Input("input", "number", label, value, mn, mx, stp, "", "")

SalaryLabels ==
    {"Expected salary (USD)", "Expected salary", "Salary expectation in $",
     "Desired compensation in US dollars", "Expected salary (EGP)",
     "Expected salary in USD or EGP", "Salary in Egyptian pounds ($ not accepted)"}

\* the labels of SalaryLabels with a USD cue and no EGP cue
UsdLabels ==
    {"Expected salary (USD)", "Salary expectation in $", "Desired compensation in US dollars"}

YearsLabels ==
    {"Years of Python experience", "Years of experience", "Years of C++ experience",
     "How many years of work experience do you have with Java?"}

\* the labels of YearsLabels that name a technology of tech_keywords
TechLabels ==
    {"Years of Python experience", "Years of C++ experience",
     "How many years of work experience do you have with Java?"}

NumberBounds == {<<"", "">>, <<"0", "15">>, <<"2", "10">>, <<"5", "5">>, <<"1", "">>, <<"", "2">>}

Steps == {"", "1", "0.01"}

EducationOptions ==
    <<Opt("Select an option", ""), Opt("High School", "hs"), Opt("Bachelor's Degree", "ba")>>

CountryOptions == <<Opt("Egypt", "eg"), Opt("Germany", "de"), Opt("Canada", "ca")>>

FieldPool ==
    {Number(l, "", b[1], b[2], st) : l \in YearsLabels \cup {"Notice period in days"},
                                     b \in NumberBounds, st \in {"1"}}
    \cup {Number(l, "", b[1], b[2], st) : l \in {"Expected salary (USD)", "Expected salary"},
                                          b \in NumberBounds, st \in Steps}
    \cup {Number(l, "", "", "", "") : l \in SalaryLabels}
    \cup {Text(l, "") : l \in SalaryLabels}
    \cup {Text(l, v) : l \in {"First name", "Favourite colour", "Why do you want this role?"},
                      v \in {"", "Mona", " "}}
    \cup {Number("Years of experience", v, "0", "15", "1") : v \in {"7"}}
    \cup {Input("input", ty, l, v, "", "", "", "", "") :
             ty \in {"email", "tel"}, l \in {"Email address", "Mobile phone number"},
             v \in {"", "x@y.org"}}
    \cup {Input("textarea", "textarea", l, v, "", "", "", "", "200") :
             l \in {"Tell us about a challenge you overcame", "Additional information"},
             v \in {"", "Already written."}}
    \cup {Dropdown("Education level", EducationOptions, k) : k \in 1..3}
    \cup {Dropdown("Country", CountryOptions, k) : k \in 1..3}

YesNo(a, b) == <<Choice("Yes", a), Choice("No", b)>>

\* an option whose <label> does not wrap its <input> (the input is a sibling
\* that the label names with for=): find_element inside the label raises
BareChoice(text, selected) == [Choice(text, selected) EXCEPT !.has_input = FALSE]

GroupPool ==
    {Group("radio", "Are you legally authorized to work?", <<Choice("Yes", TRUE)>>)}
    \cup {Group(kind, q, YesNo(a, b)) :
             kind \in {"radio", "checkbox"},
             q \in {"Are you legally authorized to work?", "Will you require visa sponsorship?",
                    "Do you have a driving licence?"},
             a \in BOOLEAN, b \in BOOLEAN}
    \cup {Group("radio", q, YesNo(FALSE, FALSE)) :
             q \in {"Do you have an active security clearance?",
                    "Can you start immediately?"}}
    \cup {Group("radio", q, <<BareChoice("Yes", FALSE), BareChoice("No", FALSE)>>) :
             q \in {"Do you have a driving licence?", "Will you require visa sponsorship?"}}
    \cup {Group("radio", "Are you open to remote work?",
                <<Choice("On-site", a), Choice("Hybrid", FALSE), Choice("Remote", b)>>) :
             a \in BOOLEAN, b \in BOOLEAN}

FillForms == {Form(<<f>>, <<>>) : f \in FieldPool} \cup {Form(<<>>, <<g>>) : g \in GroupPool}

FillProfileFiles ==
    {BaseProfileFile,
     [name |-> "Omar Said", years_experience |-> "0", python_experience |-> "4",
      expected_salary_in_usd |-> "1200", expected_salary_in_egp |-> "45,000",
      requires_sponsorship |-> "No", remote_preference |-> "Remote"],
     [name |-> "Lina", email |-> "lina@example.com", expected_salary_in_usd |-> "5",
      expected_salary_in_egp |-> "150", java_experience |-> "2.5",
      requires_sponsorship |-> "yes"]}

InitFill ==
    /\ pc = "fill"
    /\ run_no = 1
    /\ disk = NoFile
    /\ applied_jobs = {}
    /\ session_stats = Bump(ZeroStats, "searched")
    /\ applications_submitted = 0
    /\ ai_agent \in BOOLEAN
    /\ profile \in {load_profile(f) : f \in FillProfileFiles}
    /\ job = [job_id |-> "4101", title |-> "Backend Developer"]
    /\ step = 0
    /\ page = Page(FALSE, FALSE, "shown", Controls("none", "none", "enabled", "none"))
    /\ form \in FillForms
    /\ obs = NoObs
    /\ unit = NoUnit

\* one pass, unit keeping what the environment did during it
NextFill ==
    \E http1 \in HttpPerField(form),
       errs \in ErrorLists(Len(form.fields)) \cup RepeatedErrors(Len(form.fields)),
       resume_exists \in BOOLEAN :
       \E http2 \in IF errs = <<>> THEN {http1} ELSE HttpPerField(form) :
          /\ FillPass(http1, http2, errs, resume_exists)
          /\ unit' = [fn |-> "fill_application_form", http1 |-> http1, http2 |-> http2,
                      errs |-> errs, phases |-> fill_phases(errs)]

SpecFill == InitFill /\ [][NextFill]_vars

(***************************************************************************)
(* One advance on its own: a flow that has reached line 410 in some cycle, *)
(* on some document                                                        *)
(***************************************************************************)
InitAdvance ==
    /\ pc = "click"
    /\ run_no = 1
    /\ disk = NoFile
    /\ applied_jobs = {}
    /\ session_stats = Bump(ZeroStats, "searched")
    /\ applications_submitted = 0
    /\ ai_agent = FALSE
    /\ profile = load_profile(BaseProfileFile)
    /\ job = [job_id |-> "4101", title |-> "Backend Developer"]
    /\ step \in 0..(max_steps - 1)
    /\ page \in {pg \in Pages : ~is_application_complete(pg, TRUE)}
    /\ form \in Forms
    /\ obs = [NoObs EXCEPT !.fills = step + 1, !.clicks = step, !.pass_start = form]
    /\ unit = NoUnit

\* one advance, unit keeping the document it was made on, what each attempt
\* met and what _click_next_button did
NextAdvance ==
    \E att \in Attempts :
       /\ ClickStep(att)
       /\ unit' = [fn |-> "click_next_button", page |-> page, att |-> att,
                   call |-> click_next_button(page, att)]

SpecAdvance == InitAdvance /\ [][NextAdvance]_vars

(***************************************************************************)
(* One flow on its own: _complete_application called on some document,     *)
(* with or without an advisory client.  The first document may hold a      *)
(* field no tier resolves, a field that raises on every access, or no      *)
(* field at all.                                                           *)
(***************************************************************************)
CycleForms ==
    {Form(<<f>>, <<>>) : f \in {Text("Favourite colour", ""), Text("First name", ""),
                                 [Text("First name", "") EXCEPT !.stale = TRUE]}}
    \cup {Form(<<>>, <<>>)}

InitCycle ==
    /\ pc = "check"
    /\ run_no = 1
    /\ disk = NoFile
    /\ applied_jobs = {}
    /\ session_stats = Bump(ZeroStats, "searched")
    /\ applications_submitted = 0
    /\ ai_agent \in BOOLEAN
    /\ profile = load_profile(BaseProfileFile)
    /\ job = [job_id |-> "4101", title |-> "Backend Developer"]
    /\ step = 0
    /\ page \in Pages
    /\ form \in CycleForms
    /\ obs = NoObs
    /\ unit = NoUnit

NextCycle ==
    \/ \E src_ok \in BOOLEAN : FlowCheck(src_ok)
    \/ \E http1 \in HttpPerField(form), errs \in ErrorLists(Len(form.fields)),
          resume_exists \in BOOLEAN :
          \E http2 \in IF errs = <<>> THEN {http1} ELSE HttpPerField(form) :
             FlowFill(http1, http2, errs, resume_exists)
    \/ \E att \in Attempts : FlowClick(att)

SpecCycle == InitCycle /\ [][NextCycle]_vars

(***************************************************************************)
(* _is_descriptive_question applied on its own                             *)
(***************************************************************************)
ClassifyLabels ==
    {"Tell us about a challenge you overcame", "Phone number", "City",
     "Why do you want this role?", "Years of experience", "Years of experience with Python",
     "What are your career GOALS?", "E-learning platform name", "Notice period",
     "Expected salary"}

\* the labels of ClassifyLabels that hold a descriptive keyword
KeywordLabels ==
    {"Tell us about a challenge you overcame", "Why do you want this role?",
     "Years of experience with Python", "What are your career GOALS?",
     "E-learning platform name"}

MinLengths == {"", "0", "49", "50", "51", "200", "abc"}

\* the values of MinLengths that are numbers greater than 50
LongMinLengths == {"51", "200"}

InitClassify ==
    /\ pc = "off"
    /\ run_no = 0
    /\ disk = NoFile
    /\ applied_jobs = {}
    /\ session_stats = ZeroStats
    /\ applications_submitted = 0
    /\ ai_agent = FALSE
    /\ profile = load_profile(BaseProfileFile)
    /\ job = NoJob
    /\ step = 0
    /\ page = NoPage
    /\ form = NoForm
    /\ obs = NoObs
    /\ unit \in {[fn |-> "is_descriptive_question", done |-> FALSE, out |-> FALSE,
                  el |-> Input(tag, IF tag = "textarea" THEN "textarea" ELSE "text", l,
                               "", "", "", "", ml, "")] :
                    tag \in {"input", "textarea"}, l \in ClassifyLabels, ml \in MinLengths}

Classify ==
    /\ unit.fn = "is_descriptive_question"
    /\ ~unit.done
    /\ unit' = [unit EXCEPT !.done = TRUE,
                            !.out = is_descriptive_question(get_field_label(unit.el),
                                                            InputType(unit.el), unit.el)]
    /\ UNCHANGED <<pc, run_no, disk, applied_jobs, session_stats, applications_submitted,
                   ai_agent, profile, job, step, page, form, obs>>

SpecClassify == InitClassify /\ [][Classify]_vars

(***************************************************************************)
(* _ai_answer_field applied on its own to a text field with a declared     *)
(* maximum length, for some outcome of the advisory POST                   *)
(***************************************************************************)
MaxLengths == {"0", "1", "2", "3", "4", "5", "10"}

AnswerHttp ==
    {HttpFail("timeout"), HttpOk("abcdef"), HttpOk("abcde"), HttpOk(" \"Blue\" "),
     HttpOk("I enjoy solving hard problems.")}

InitAnswer ==
    /\ pc = "off"
    /\ run_no = 0
    /\ disk = NoFile
    /\ applied_jobs = {}
    /\ session_stats = ZeroStats
    /\ applications_submitted = 0
    /\ ai_agent = TRUE
    /\ profile = load_profile(BaseProfileFile)
    /\ job = NoJob
    /\ step = 0
    /\ page = NoPage
    /\ form = NoForm
    /\ obs = NoObs
    /\ unit \in {[fn |-> "ai_answer_field", done |-> FALSE, out |-> "", http |-> http,
                  el |-> Input(tag, ty, "Favourite colour", "", "", "", "", "", ml)] :
                    tag \in {"input"}, ty \in {"text", "email", "tel", "url"},
                    ml \in MaxLengths, http \in AnswerHttp}

Answer ==
    /\ unit.fn = "ai_answer_field"
    /\ ~unit.done
    /\ unit' = [unit EXCEPT !.done = TRUE,
                            !.out = ai_answer_field(get_field_label(unit.el), InputType(unit.el),
                                                    unit.el, ai_agent, unit.http)]
    /\ UNCHANGED <<pc, run_no, disk, applied_jobs, session_stats, applications_submitted,
                   ai_agent, profile, job, step, page, form, obs>>

SpecAnswer == InitAnswer /\ [][Answer]_vars

(***************************************************************************)
(* _get_field_label applied on its own to a field with or without an       *)
(* accessible name, an id, a label element for that id, a placeholder      *)
(***************************************************************************)
\* [id, label_found, label_text]: no id; an id that no label element names;
\* an id with a label element, whose text may be empty
LabelRefs ==
    {<<"", FALSE, "">>}
    \cup {<<i, FALSE, "">> : i \in {"f1", "f2"}}
    \cup {<<i, TRUE, t>> : i \in {"f1", "f2"}, t \in {"", "First name", "Surname"}}

InitLabel ==
    /\ pc = "off"
    /\ run_no = 0
    /\ disk = NoFile
    /\ applied_jobs = {}
    /\ session_stats = ZeroStats
    /\ applications_submitted = 0
    /\ ai_agent = FALSE
    /\ profile = load_profile(BaseProfileFile)
    /\ job = NoJob
    /\ step = 0
    /\ page = NoPage
    /\ form = NoForm
    /\ obs = NoObs
    /\ unit \in {[fn |-> "get_field_label", done |-> FALSE, out |-> "",
                  el |-> [Text(aria, "") EXCEPT !.id = ref[1], !.label_found = ref[2],
                                                !.label_text = ref[3], !.placeholder = ph]] :
                    aria \in {"", "Full name", "City"}, ref \in LabelRefs,
                    ph \in {"", "Your name", "e.g. Cairo"}}

Label ==
    /\ unit.fn = "get_field_label"
    /\ ~unit.done
    /\ unit' = [unit EXCEPT !.done = TRUE, !.out = get_field_label(unit.el)]
    /\ UNCHANGED <<pc, run_no, disk, applied_jobs, session_stats, applications_submitted,
                   ai_agent, profile, job, step, page, form, obs>>

SpecLabel == InitLabel /\ [][Label]_vars

(***************************************************************************)
(* The history file under two instances of the agent started in the same   *)
(* directory: each loads the file when it is constructed and, after every  *)
(* completed application, adds the job to its own set and saves.           *)
(*                                                                         *)
(* unit is [fn, up, mem, saved]: which instances are constructed, the      *)
(* applied_jobs set of each, and the number of saves so far.               *)
(***************************************************************************)
MaxSaves == 3

Writers == {"a", "b"}

InitHistory ==
    /\ pc = "off"
    /\ run_no = 0
    /\ disk = NoFile
    /\ applied_jobs = {}
    /\ session_stats = ZeroStats
    /\ applications_submitted = 0
    /\ ai_agent = FALSE
    /\ profile = load_profile(BaseProfileFile)
    /\ job = NoJob
    /\ step = 0
    /\ page = NoPage
    /\ form = NoForm
    /\ obs = NoObs
    /\ unit = [fn |-> "save_applied_job", up |-> [w \in Writers |-> FALSE],
               mem |-> [w \in Writers |-> {}], saved |-> 0]

\* LinkedInJobAgent.__init__ of instance w: self.applied_jobs = load_applied_jobs()
Construct(w) ==
    /\ ~unit.up[w]
    /\ ~load_applied_jobs(disk).raised
    /\ unit' = [unit EXCEPT !.up[w] = TRUE, !.mem[w] = load_applied_jobs(disk).jobs]
    /\ UNCHANGED <<pc, run_no, disk, applied_jobs, session_stats, applications_submitted,
                   ai_agent, profile, job, step, page, form, obs>>

\* lines 310 and 341-352 in instance w: a job that is not in its set is
\* applied to, added to the set, and saved
Apply(w, job_id, io) ==
    /\ unit.up[w]
    /\ unit.saved < MaxSaves
    /\ ~already_applied(job_id, unit.mem[w])
    /\ unit' = [unit EXCEPT !.mem[w] = @ \cup {job_id}, !.saved = @ + 1]
    /\ disk' = save_applied_job(disk, unit'.mem[w],
                                JobApplication([job_id |-> job_id, title |-> "Backend Developer"],
                                               "submitted"), io)
    /\ UNCHANGED <<pc, run_no, applied_jobs, session_stats, applications_submitted,
                   ai_agent, profile, job, step, page, form, obs>>

\* the run of instance w ends
Quit(w) ==
    /\ unit.up[w]
    /\ unit' = [unit EXCEPT !.up[w] = FALSE, !.mem[w] = {}]
    /\ UNCHANGED <<pc, run_no, disk, applied_jobs, session_stats, applications_submitted,
                   ai_agent, profile, job, step, page, form, obs>>

NextHistory ==
    \/ \E w \in Writers : Construct(w)
    \/ \E w \in Writers, job_id \in JobIds, io \in {"ok", "read_error", "write_error"} :
          Apply(w, job_id, io)
    \/ \E w \in Writers : Quit(w)

SpecHistory == InitHistory /\ [][NextHistory]_vars

(***************************************************************************)
(* Properties                                                              *)
(***************************************************************************)
\* a fill pass has just run: pass_start is the form it started on
PassDone == pc = "click"

Before(k) == obs.pass_start.fields[k]

After(k) == form.fields[k]

FlowStarts == pc = "loop" /\ pc' = "check"

FlowEnded == pc = "done" /\ obs.result \in {"completed", "failed"}

\* C1: whenever the application flow is started for a job, that job's id is
\* not in the job_ids of the history file, in the first run and in every
\* later run, whatever applications and history writes (failed ones
\* included) came before.
C1_Dedup == [][FlowStarts => job'.job_id \notin disk.job_ids]_vars

\* C1 witness: in a later run, a job whose id is in the history file comes up
\* again and is skipped as already applied.
C1_Witness ==
    /\ run_no >= 2
    /\ pc = "done"
    /\ obs.result = "skip_applied"
    /\ job.job_id \in disk.job_ids

\* C2: a flow in which the completion predicate was never true and no advance
\* failed ends Failed after exactly 10 fill passes and 10 progression clicks;
\* while a flow is running it has made fewer than 10 clicks and at most 10
\* fill passes.
C2_StepBound ==
    /\ (pc = "done" /\ obs.result = "failed" /\ obs.reason # "click")
          => (obs.reason = "bound" /\ obs.fills = 10 /\ obs.clicks = 10)
    /\ (pc \in {"check", "fill", "click"}) => (obs.clicks < 10 /\ obs.fills <= 10)
    /\ (pc \in {"check", "fill"}) => (obs.fills = obs.clicks /\ obs.clicks = step)
    /\ (pc = "click") => (obs.fills = obs.clicks + 1)

\* C2 witness: a flow has ended Failed on the step bound.
C2_Witness ==
    /\ pc = "done"
    /\ obs.result = "failed"
    /\ obs.reason = "bound"
    /\ obs.fills = 10
    /\ obs.clicks = 10
    /\ obs.closes = 1

\* C3 (as claimed): a field that holds a non-blank value when a fill pass
\* starts is the same after the pass: no clear, no keystroke, no selection
\* change.
C3_PrefilledUntouched ==
    PassDone => \A k \in 1..Len(form.fields) :
        Strip(Before(k).value) # "" => After(k) = Before(k)

NumOk(s) == ParseFloat(s).ok

\* min <= v <= max for the bounds that are declared
InBounds(v, mn, mx) ==
    /\ NumOk(v)
    /\ (mn # "" => RatLeq(ParseFloat(mn), ParseFloat(v)))
    /\ (mx # "" => RatLeq(ParseFloat(v), ParseFloat(mx)))

Written(k) == After(k).ops # Before(k).ops

\* C4 (as claimed): the value a fill pass writes into a number field with
\* declared min and/or max lies within them.
C4_WithinBounds ==
    PassDone => \A k \in 1..Len(form.fields) :
        (/\ Before(k).type = "number"
         /\ Written(k)
         /\ (Before(k).min # "" \/ Before(k).max # ""))
        => InBounds(After(k).value, Before(k).min, Before(k).max)

\* C5 (as claimed): a group in which some option is selected when the fill
\* pass starts gets no click and is the same after the pass.
C5_ChoiceIdempotent ==
    PassDone => \A k \in 1..Len(form.groups) :
        (\E i \in 1..Len(obs.pass_start.groups[k].options) :
            obs.pass_start.groups[k].options[i].selected)
        => form.groups[k] = obs.pass_start.groups[k]

\* C6 (as claimed): when the advisory call of the gate fails, the gate returns
\* what the keyword match gives, and a job whose description matches is not
\* skipped by the gate.
C6_GateFallback ==
    (pc = "done" /\ obs.gate.called /\ obs.gate.http \in HttpFailures)
    => /\ obs.gate.apply = should_apply_fallback(obs.gate.description).apply
       /\ obs.gate.reason = should_apply_fallback(obs.gate.description).reason
       /\ (should_apply_fallback(obs.gate.description).apply => obs.result # "skip_gate")

\* the profile attribute of the technology each label of TechLabels names
TechAttribute ==
    [l \in TechLabels |->
        IF l = "Years of Python experience" THEN "python_experience"
        ELSE IF l = "Years of C++ experience" THEN "cpp_experience"
        ELSE "java_experience"]

\* C7 (as claimed): an empty number field whose label names years, experience
\* and a technology gets the profile's general years_experience when the
\* profile has no years for that technology and the general value is within
\* the field's bounds.
C7_YearsFromProfile ==
    PassDone => \A k \in 1..Len(form.fields) :
        (/\ Before(k).type = "number"
         /\ Before(k).value = ""
         /\ get_field_label(Before(k)) \in TechLabels
         /\ PGet(profile, TechAttribute[get_field_label(Before(k))], "") = ""
         /\ profile["years_experience"] # ""
         /\ InBounds(profile["years_experience"], Before(k).min, Before(k).max))
        => After(k).value = profile["years_experience"]

\* an empty salary field without min, max and step
SalaryCase(k) ==
    /\ get_field_label(Before(k)) \in SalaryLabels
    /\ Before(k).value = ""
    /\ Before(k).min = "" /\ Before(k).max = "" /\ Before(k).step = ""
    /\ profile["expected_salary_in_usd"] # ""
    /\ profile["expected_salary_in_egp"] # ""

\* C8: an empty, unconstrained salary field gets the profile's USD salary
\* when its label has a USD cue ("usd", "$", "dollar") and no EGP cue ("egp",
\* "egyptian"), and the profile's EGP salary in every other case.
C8_SalaryCurrency ==
    PassDone => \A k \in 1..Len(form.fields) :
        SalaryCase(k)
        => After(k).value =
              IF get_field_label(Before(k)) \in UsdLabels
              THEN profile["expected_salary_in_usd"]
              ELSE profile["expected_salary_in_egp"]

\* C8 witness: a label with both a USD and an EGP cue got the EGP salary.
C8_Witness ==
    /\ PassDone
    /\ Len(form.fields) = 1
    /\ SalaryCase(1)
    /\ get_field_label(Before(1)) = "Expected salary in USD or EGP"
    /\ After(1).value = "30000"
    /\ profile["expected_salary_in_usd"] = "800"

\* C9: a field is classified descriptive exactly when it is a long-text
\* field, or its minimum length is a number greater than 50, or its label
\* holds a descriptive keyword.
C9_Descriptive ==
    (unit.fn = "is_descriptive_question" /\ unit.done)
    => unit.out = (\/ unit.el.tag = "textarea"
                   \/ unit.el.minlength \in LongMinLengths
                   \/ unit.el.aria_label \in KeywordLabels)

\* C9 witness: a short field with minimum length 50 and no keyword is not
\* descriptive.
C9_Witness ==
    /\ unit.fn = "is_descriptive_question"
    /\ unit.done
    /\ unit.el.tag = "input"
    /\ unit.el.aria_label = "Phone number"
    /\ unit.el.minlength = "50"
    /\ ~unit.out

RecordsOf(job_id) ==
    {i \in 1..Len(disk.applications) : disk.applications[i].job_id = job_id}

\* C10 (as claimed): a job whose flow has ended, Completed or Failed, and
\* whose history write did not fail, has exactly one record in the history,
\* with status submitted or failed respectively.
C10_RecordPerFlow ==
    (FlowEnded /\ obs.io \in {"none", "ok"})
    => /\ Cardinality(RecordsOf(job.job_id)) = 1
       /\ \A i \in RecordsOf(job.job_id) :
             disk.applications[i].status =
                IF obs.result = "completed" THEN "submitted" ELSE "failed"

\* C11 (as claimed): a save that leaves a readable history file loses no job
\* id: every id that was in the file before the save is in it after, and so
\* is every id of the saving instance's set.
C11_ReadMergeWrite ==
    [][(disk' # disk /\ disk'.state = "ok")
         => /\ disk.job_ids \subseteq disk'.job_ids
            /\ \E w \in Writers : unit'.mem[w] \subseteq disk'.job_ids]_vars

\* the document shows one of the signals _is_application_complete looks for
CompletionSignals(pg) == pg.phrase \/ pg.done \/ pg.modal # "shown"

\* C12: a completion check made on a document that shows a completion signal
\* (and whose source can be read) ends the flow with success in that cycle:
\* no fill pass, no progression click and no _close_modal follow the check.
C12_CheckFirst ==
    [][(pc = "check" /\ CompletionSignals(page) /\ ~obs'.missed)
         => /\ pc' = "done"
            /\ obs'.reason = "complete"
            /\ obs'.fills = obs.fills
            /\ obs'.clicks = obs.clicks
            /\ obs'.closes = obs.closes]_vars

\* C12 witness: a flow has returned success at the check of a later cycle,
\* with as many fill passes as clicks and no _close_modal.
C12_Witness ==
    /\ pc = "done"
    /\ obs.result = "completed"
    /\ obs.clicks >= 2
    /\ obs.fills = obs.clicks
    /\ obs.closes = 0

\* C13: a flow that returned failure has called _close_modal exactly once; a
\* flow that returned success, or is still running, has not called it.
C13_CleanupOnFailure ==
    /\ (pc = "done" /\ obs.result = "failed") => obs.closes = 1
    /\ (pc = "done" /\ obs.reason = "complete") => obs.closes = 0
    /\ (pc \in {"check", "fill", "click"}) => obs.closes = 0

\* C13 witness: a flow has failed on a missing or disabled control after some
\* cycles, with one _close_modal.
C13_Witness ==
    /\ pc = "done"
    /\ obs.result = "failed"
    /\ obs.reason = "click"
    /\ obs.fills >= 2
    /\ obs.closes = 1

\* C20 (as claimed): a flow whose last progression click led to a document
\* that satisfies the completion predicate (and whose source could be read)
\* has returned Completed, and a job recorded as completed is in the applied
\* set; this for a click made in any cycle, the 10th included.
C20_AdvanceSuccessDetected ==
    (pc = "done" /\ obs.landed /\ ~obs.missed)
    => /\ obs.reason = "complete"
       /\ (obs.result = "completed" => job.job_id \in applied_jobs)

\* process_current_job returns in this step
JobReturns == pc \in {"loop", "check", "click"} /\ pc' = "done"

\* C18 (as claimed): when process_current_job ends on an exception, the errors
\* counter has grown by one and the applied set and the history file are as
\* they were when the job was taken up.
C18_FailureContained ==
    [][(JobReturns /\ obs'.result = "error")
         => /\ session_stats'.errors = session_stats.errors + 1
            /\ applied_jobs' = applied_jobs
            /\ disk' = disk]_vars

\* C19 (as claimed): when _complete_application returned Completed the job is
\* added to the applied set, its record is written (unless the write itself
\* fails) and the applied counter grows by one; on every other outcome the
\* set and the counter are unchanged.
C19_AppliedOnlyOnSuccess ==
    [][JobReturns
         => IF obs'.reason = "complete"
            THEN /\ applied_jobs' = applied_jobs \cup {job'.job_id}
                 /\ session_stats'.applied = session_stats.applied + 1
                 /\ (obs'.io = "ok" => obs'.recorded)
            ELSE /\ applied_jobs' = applied_jobs
                 /\ session_stats'.applied = session_stats.applied]_vars

\* a text input or textarea that is blank when the pass starts and for which
\* the profile tier has no value
Unmatched(k) ==
    /\ IsSimple(Before(k))
    /\ ~Before(k).stale
    /\ ~HasCurrentValue(Before(k))
    /\ get_field_value_with_validation(get_field_label(Before(k)), InputType(Before(k)),
                                       Before(k), profile) = ""

\* C14 (as claimed): a blank field that is classified descriptive and has no
\* profile match holds text after the pass, with or without an advisory
\* client and whatever the advisory call did.
C14_DescriptiveGetsText ==
    PassDone => \A k \in 1..Len(form.fields) :
        (/\ Unmatched(k)
         /\ is_descriptive_question(get_field_label(Before(k)), InputType(Before(k)), Before(k)))
        => After(k).value # ""

\* C15 (as claimed): when the advisory call made for an unmatched field in
\* the main loop fails, the next tier is evaluated for that field: the field
\* ends with the safe default of its label and type (and unwritten when the
\* safe default is empty).
C15_TierDegradation ==
    (PassDone /\ unit.fn = "fill_application_form" /\ unit.errs = <<>> /\ ai_agent)
    => \A k \in 1..Len(form.fields) :
          (Unmatched(k) /\ unit.http1[k].kind \in HttpFailures)
          => After(k).value = get_safe_default(get_field_label(Before(k)),
                                               InputType(Before(k)), Before(k))

GroupBefore(k) == obs.pass_start.groups[k]

GroupAfter(k) == form.groups[k]

NoneSelected(g) == \A i \in 1..Len(g.options) : ~g.options[i].selected

\* the fixed answer of the compliance families: "" for a question of none
FixedAnswer(question_text) ==
    LET q == Lower(question_text)
    IN  IF Contains(q, "eligible to work") \/ Contains(q, "legally authorized") THEN "Yes"
        ELSE IF Contains(q, "clearance") THEN "No"
        ELSE IF Contains(q, "background check") \/ Contains(q, "drug test")
                \/ Contains(q, "legal age") \/ Contains(q, "urgent") \/ Contains(q, "immediately")
        THEN "Yes"
        ELSE ""

\* C16 (as claimed): a Yes/No question of a compliance family that is
\* unanswered when the pass starts is answered with the family's fixed
\* answer, whatever the profile says.
C16_FixedCompliance ==
    PassDone => \A k \in 1..Len(form.groups) :
        (/\ FixedAnswer(GroupBefore(k).question) # ""
         /\ NoneSelected(GroupBefore(k)))
        => \A i \in 1..Len(GroupAfter(k).options) :
              GroupAfter(k).options[i].selected
                 <=> GroupAfter(k).options[i].text = FixedAnswer(GroupBefore(k).question)

\* C17 (as claimed): a group with at least one option, all of whose options
\* accept a click, has an option selected after the pass.
C17_GroupAnswered ==
    PassDone => \A k \in 1..Len(form.groups) :
        (/\ GroupBefore(k).options # <<>>
         /\ NoneSelected(GroupBefore(k))
         /\ \A i \in 1..Len(GroupBefore(k).options) : GroupBefore(k).options[i].click_ok)
        => ~NoneSelected(GroupAfter(k))

\* C21 (as claimed): a job that is in the applied set with a "submitted"
\* record written by its flow had at least one progression control clicked
\* during that flow.
C21_SubmittedAfterAdvance ==
    (pc = "done" /\ obs.recorded /\ job.job_id \in applied_jobs) => obs.clicks >= 1

\* C22 (as claimed): a completion check that ends the flow with success on a
\* document without a success phrase and without a "Done" control, that is
\* from the hosting modal being hidden or absent, is made on a document on
\* which the priority search finds no progression control.
C22_AbsenceWeakest ==
    [][(pc = "check" /\ pc' = "done" /\ obs'.reason = "complete"
           /\ ~page.phrase /\ ~page.done)
         => find_button(page) = "none"]_vars

\* the first control in the priority order that the document holds is in
\* the given state
ChosenControl(pg, state) ==
    \E k \in 1..Len(control_order) :
       /\ pg.controls[control_order[k]] = state
       /\ \A j \in 1..(k - 1) : pg.controls[control_order[j]] = "none"

\* C23: an advance made on a document whose first control in the priority
\* order is disabled dispatches no click, stops at the first attempt that
\* reaches the control, returns failure, and the flow ends failed in that
\* cycle with one _close_modal, also when an enabled control of lower
\* priority is there.
C23_DisabledFails ==
    (unit.fn = "click_next_button" /\ ChosenControl(unit.page, "disabled"))
    => /\ unit.call.clicked = "none"
       /\ ~unit.call.ret
       /\ \A k \in 1..click_attempts : unit.att[k] = "ok" => unit.call.attempts <= k
       /\ pc = "done"
       /\ obs.result = "failed"
       /\ obs.reason = "click"
       /\ obs.closes = 1
       /\ obs.clicks = obs.fills - 1

\* C23 witness: an advance has failed at its first attempt on a document
\* with a disabled submit control and an enabled next control.
C23_Witness ==
    /\ unit.fn = "click_next_button"
    /\ unit.page.controls.submit = "disabled"
    /\ unit.page.controls.next = "enabled"
    /\ unit.att[1] = "ok"
    /\ unit.call.attempts = 1
    /\ unit.call.clicked = "none"
    /\ pc = "done"
    /\ obs.result = "failed"

\* C24: one call of _click_next_button makes at most click_attempts attempts
\* and the flow's click count grows by one when it returns success and by
\* nothing otherwise; with a stale control on attempts 1 and 2 and a usable
\* one on attempt 3 it succeeds at the third attempt; with a stale control on
\* every attempt it returns failure after the third.
C24_BoundedRetry ==
    [][pc = "click"
         => /\ unit'.call.attempts \in 1..click_attempts
            /\ obs'.clicks = obs.clicks + (IF unit'.call.ret THEN 1 ELSE 0)
            /\ unit'.call.ret <=> unit'.call.clicked # "none"
            /\ (/\ unit'.att[1] = "stale" /\ unit'.att[2] = "stale" /\ unit'.att[3] = "ok"
                /\ ChosenControl(page, "enabled"))
               => (unit'.call.ret /\ unit'.call.attempts = 3)
            /\ (\A k \in 1..click_attempts : unit'.att[k] = "stale")
               => (~unit'.call.ret /\ unit'.call.attempts = click_attempts)]_vars

\* C24 witness: an advance has succeeded at its third attempt after two
\* stale ones, and the flow goes on to the next completion check.
C24_Witness ==
    /\ unit.fn = "click_next_button"
    /\ unit.att[1] = "stale"
    /\ unit.att[2] = "stale"
    /\ unit.att[3] = "ok"
    /\ unit.call.ret
    /\ unit.call.attempts = 3
    /\ pc = "check"
    /\ obs.clicks = step

\* C25: a cycle whose completion check is false goes on to the fill pass,
\* the fill pass, whatever happened inside it, is counted once and goes on
\* to the advance without ending the flow, and the advance is made after
\* step + 1 passes and step clicks and is followed by the next cycle's check
\* or by the end of the flow.
C25_CycleOrder ==
    [][/\ (pc = "check" /\ pc' # "done")
          => (pc' = "fill" /\ obs'.fills = step /\ obs'.clicks = step)
       /\ pc = "fill"
          => /\ pc' = "click"
             /\ obs'.fills = obs.fills + 1
             /\ obs'.clicks = obs.clicks
             /\ obs'.closes = 0
             /\ obs'.result = "none"
       /\ pc = "click"
          => /\ obs.fills = step + 1
             /\ obs.clicks = step
             /\ pc' \in {"check", "done"}
             /\ obs'.fills = obs.fills
             /\ obs'.clicks \in {obs.clicks, obs.clicks + 1}
             /\ pc' = "check" => (obs'.clicks = obs.clicks + 1 /\ step' = step + 1)]_vars

\* C25 witness: the first pass of a flow met a field that raises on every
\* access, and the advance was made all the same: the flow is at the check
\* of its second cycle, one click later.
C25_Witness ==
    /\ pc = "check"
    /\ step = 1
    /\ obs.fills = 1
    /\ obs.clicks = 1
    /\ Len(obs.pass_start.fields) = 1
    /\ obs.pass_start.fields[1].stale

\* the number of clear() calls a pass made on field k
ClearsIn(k) ==
    Cardinality({i \in 1..Len(After(k).ops) : After(k).ops[i] = "clear"})
    - Cardinality({i \in 1..Len(Before(k).ops) : Before(k).ops[i] = "clear"})

\* the positions of a part in the parts a pass ran through
PhaseAt(name) == {i \in 1..Len(unit.phases) : unit.phases[i] = name}

\* C26: a fill pass goes through the validation errors once when errors
\* were found and not at all otherwise, after the main loop and the choice
\* groups, and no field is written more than once in the pass: a field the
\* main loop wrote is not written again by the sweep, and a field under two
\* error elements is written by the sweep once at most.
C26_SingleSweep ==
    (PassDone /\ unit.fn = "fill_application_form")
    => /\ Cardinality(PhaseAt("repair")) = (IF unit.errs # <<>> THEN 1 ELSE 0)
       /\ \A i \in PhaseAt("repair") :
             \A j \in PhaseAt("fields") \cup PhaseAt("selects") \cup PhaseAt("questions") : j < i
       /\ \A k \in 1..Len(form.fields) : ClearsIn(k) <= 1

\* C26 witness: the main loop could not resolve a field (the advisory POST
\* timed out), two validation errors were found above it, and the sweep, for
\* which the POST answered, wrote the field once.
C26_Witness ==
    /\ PassDone
    /\ unit.fn = "fill_application_form"
    /\ Len(unit.errs) = 2
    /\ unit.errs[1] = unit.errs[2]
    /\ Cardinality(PhaseAt("repair")) = 1
    /\ Len(form.fields) = 1
    /\ unit.http1[1].kind # "ok"
    /\ unit.http2[1].kind = "ok"
    /\ Before(1).value = ""
    /\ After(1).value # ""
    /\ ClearsIn(1) = 1

\* C27 (as claimed): the value _ai_answer_field returns for a field that is
\* not a number field and declares a maximum length L >= 0 has at most L
\* characters, and when the advisory answer had more than L characters the
\* value ends with an ellipsis.
C27_TruncationWithinLimit ==
    (unit.fn = "ai_answer_field" /\ unit.done /\ ParseInt(unit.el.maxlength).ok
        /\ ParseInt(unit.el.maxlength).val >= 0)
    => LET L      == ParseInt(unit.el.maxlength).val
           answer == StripChar(StripChar(Strip(query(unit.http)), "\""), "'")
           n      == Len(unit.out)
       IN  /\ n <= L
           /\ Len(answer) > L => (n >= 3 /\ SubSeq(unit.out, n - 2, n) = "...")

\* every tier yields the empty string for field k, in the main loop and in
\* the repair sweep: no profile value, nothing from the descriptive and
\* advisory tiers, and an empty safe default
AllTiersEmpty(k) ==
    LET el == Before(k)
        l  == get_field_label(el)
        ty == InputType(el)
    IN  /\ Unmatched(k)
        /\ ty # "number"
        /\ get_safe_default(l, ty, el) = ""
        /\ or_advisory("", l, ty, el, profile, ai_agent, unit.http1[k]) = ""
        /\ or_repair_advisory("", l, ty, el, ai_agent, unit.http2[k]) = ""

\* C28: a field for which every tier yields the empty string is the same
\* after the fill pass as before it: no clear and no keystroke, in the main
\* loop and in the repair sweep.
C28_UnresolvedUnwritten ==
    (PassDone /\ unit.fn = "fill_application_form")
    => \A k \in 1..Len(form.fields) : AllTiersEmpty(k) => After(k) = Before(k)

\* C28 witness: an advisory client is connected, the POST failed for an
\* empty text field that no rule matches, in the main loop and again in the
\* repair sweep that a validation error brought about, and the field has no
\* mutation.
C28_Witness ==
    /\ PassDone
    /\ unit.fn = "fill_application_form"
    /\ ai_agent
    /\ unit.errs # <<>>
    /\ Len(form.fields) = 1
    /\ AllTiersEmpty(1)
    /\ Before(1).aria_label = "Favourite colour"
    /\ Before(1).value = ""
    /\ unit.http1[1].kind \in HttpFailures
    /\ unit.http2[1].kind \in HttpFailures
    /\ After(1).ops = <<>>

\* C29 (as claimed): _get_field_label returns the accessible name when it is
\* not empty; otherwise the text of the label element that names the field's
\* id when there is one; otherwise the placeholder, also for a field that has
\* an id but no label element; otherwise the empty string.
C29_LabelPriority ==
    (unit.fn = "get_field_label" /\ unit.done)
    => unit.out = (IF unit.el.aria_label # "" THEN unit.el.aria_label
                   ELSE IF unit.el.id # "" /\ unit.el.label_found THEN unit.el.label_text
                   ELSE unit.el.placeholder)

====
